---- MODULE Spec2Model ----
(***************************************************************************)
(* The histopathologic cancer detection notebook                           *)
(* (src/histopathologic_cancer_detection.ipynb) as a state machine: one    *)
(* action per stage of the notebook, run top to bottom; a stage that       *)
(* raises stops the run (pc = "error").                                    *)
(*                                                                         *)
(* Strings that the code splits or joins (paths, file names) are sequences *)
(* of tokens: the separators "/" and "." and separator-free pieces.        *)
(* Fractions are in thousandths (0.5 is 500, 0.001 is 1).                  *)
(***************************************************************************)
EXTENDS Integers, Sequences, FiniteSets, TLC

\* ------------------------------------------------------------- bounds

\* Rows of train_labels.csv in the model (the real file has about 210000).
NumRows == 7

\* Rows sampled per label: the model's stand-in for the notebook's 10000.
SampleN == 3

\* Largest number of files under test/ in the model.
MaxTestFiles == 2

\* ------------------------------------------------- program constants

num_images_to_display == 3
SubsetPerLabel == 10000
TestSizeDenominator == 5
GeneratorBatchSize == 32
RescaleDen == 255
Threshold == 500
ReshapeSide == 96
ReshapeChannels == 3

\* -------------------------------------------------- strings and paths

RECURSIVE Split(_, _)
\* str.split(sep): the pieces between the separators, empty pieces kept.
Split(s, sep) ==
    IF s = <<>> THEN << <<>> >>
    ELSE LET rest == Split(Tail(s), sep)
         IN  IF Head(s) = sep
             THEN << <<>> >> \o rest
             ELSE << <<Head(s)>> \o Head(rest) >> \o Tail(rest)

\* seq[-1]
Last(seq) == seq[Len(seq)]

\* os.path.join(a, b, ...) on POSIX, for relative pieces.
PathJoin(parts) ==
    LET RECURSIVE J(_)
        J(ps) == IF Len(ps) = 1 THEN ps[1]
                 ELSE ps[1] \o <<"/">> \o J(Tail(ps))
    IN  J(parts)

\* lambda x: os.path.join("train", str(x) + ".tif")
TrainPath(id) == PathJoin(<< <<"train">>, <<ToString(id)>> \o <<".", "tif">> >>)

\* file_path.split("/")[-1]
BaseName(file_path) == Last(Split(file_path, "/"))

\* file.split("/")[-1]: the extension left on.
WholeName(file) == Last(Split(file, "/"))

\* file.split("/")[-1].split(".")[0]
SubmissionId(file) == Split(Last(Split(file, "/")), ".")[1]

\* A set as a sequence, in a fixed order.
RECURSIVE SetToSeq(_)
SetToSeq(S) ==
    IF S = {} THEN <<>>
    ELSE LET x == CHOOSE y \in S : \A z \in S : y.id <= z.id
         IN  <<x>> \o SetToSeq(S \ {x})

Range(f) == {f[i] : i \in DOMAIN f}

\* ------------------------------------------------------------- inputs

Ids == 1..NumRows

\* Image shapes (height, width, channels) that occur in the model.
Shapes == {<<96, 96, 3>>, <<64, 96, 3>>}

\* Files that may lie under test/: flat, in a subdirectory, with a second dot.
TestCandidates ==
    { <<"test", "/", "a", ".", "tif">>,
      <<"test", "/", "b", ".", "tif">>,
      <<"test", "/", "sub", "/", "a", ".", "tif">>,
      <<"test", "/", "b", ".", "v2", ".", "tif">> }

\* What model1.predict may return, in thousandths.
Probabilities == {499, 500, 501}

Stages ==
    { "read_csv", "show_images", "check_dimensions", "sample", "split",
      "copy_train", "copy_test", "generators", "build1", "fit1", "build2",
      "fit2", "plot", "walk", "predict", "write" }

NoDir == [exists |-> FALSE, files |-> {}]
StaleDir == [exists |-> TRUE,
             files |-> {[sub |-> "0", name |-> <<"old", ".", "tif">>]}]

VARIABLES
    pc,                 \* the stage to run next, "done" or "error"
    ran,                \* how often each stage has run
    csv,                \* train_labels.csv: id -> label (0 or 1)
    train_shapes,       \* the shapes of the images under train/
    test_dir,           \* the files under test/
    dirs,               \* train_data and test_data on disk
    df,                 \* the dataframe: a sequence of rows
    image_height, image_width, image_channels,
    df_subset,
    train_file_paths, test_file_paths, train_labels, test_labels,
    train_datagen, test_datagen, train_generator, test_generator,
    learning_rate, optimizer, training_epochs, batch_size, dropout_rate,
    heap,               \* the optimizer objects; `optimizer` is an index
    model1, model2,
    fed,                \* every image handed to a model
    submission_df,
    file_index,         \* the prediction loop's position in test_file_paths
    prediction,         \* what model1.predict returned last, in thousandths
    submission_csv      \* submission.csv on disk

vars ==
    << pc, ran, csv, train_shapes, test_dir, dirs, df,
       image_height, image_width, image_channels, df_subset,
       train_file_paths, test_file_paths, train_labels, test_labels,
       train_datagen, test_datagen, train_generator, test_generator,
       learning_rate, optimizer, training_epochs, batch_size, dropout_rate,
       heap, model1, model2, fed, submission_df, file_index, prediction,
       submission_csv >>

dataVars ==
    << df, image_height, image_width, image_channels, df_subset,
       train_file_paths, test_file_paths, train_labels, test_labels >>
genVars == << train_datagen, test_datagen, train_generator, test_generator >>
hyperVars ==
    << learning_rate, optimizer, training_epochs, batch_size, dropout_rate,
       heap >>
modelVars == << model1, model2, fed >>
outVars == << submission_df, file_index, prediction, submission_csv >>
inputVars == << csv, train_shapes, test_dir >>

None == [built |-> FALSE]

\* The CSV of the submission slice: the first half of the ids labelled 0.
FixedCsv == [i \in Ids |-> IF 2 * i <= NumRows THEN 0 ELSE 1]

\* The inputs are varied one group at a time: the labels of the CSV and
\* the leftovers of an earlier run; the image shapes; the test directory.
\* The prediction loop reads only model1 and test/, the preparation only
\* the CSV and train/.
InputCases ==
    \/ /\ csv \in [Ids -> {0, 1}]
       /\ dirs \in [{"train_data", "test_data"} -> {NoDir, StaleDir}]
       /\ train_shapes = {<<96, 96, 3>>}
       /\ test_dir = {<<"test", "/", "a", ".", "tif">>}
    \/ /\ csv = FixedCsv
       /\ dirs = [d \in {"train_data", "test_data"} |-> NoDir]
       /\ train_shapes \in (SUBSET Shapes) \ {{}}
       /\ test_dir = {<<"test", "/", "a", ".", "tif">>}
    \/ /\ csv = FixedCsv
       /\ dirs = [d \in {"train_data", "test_data"} |-> NoDir]
       /\ train_shapes = {<<96, 96, 3>>}
       /\ test_dir \in {T \in SUBSET TestCandidates :
                            Cardinality(T) <= MaxTestFiles}

Init ==
    /\ InputCases
    /\ pc = "read_csv"
    /\ ran = [s \in Stages |-> 0]
    /\ df = <<>>
    /\ image_height = 0 /\ image_width = 0 /\ image_channels = 0
    /\ df_subset = <<>>
    /\ train_file_paths = <<>> /\ test_file_paths = <<>>
    /\ train_labels = <<>> /\ test_labels = <<>>
    /\ train_datagen = None /\ test_datagen = None
    /\ train_generator = None /\ test_generator = None
    /\ learning_rate = 0 /\ optimizer = 0 /\ training_epochs = 0
    /\ batch_size = 0 /\ dropout_rate = 0
    /\ heap = <<>>
    /\ model1 = None /\ model2 = None
    /\ fed = {}
    /\ submission_df = <<>>
    /\ file_index = 0
    /\ prediction = 0
    /\ submission_csv = [written |-> FALSE, rows |-> <<>>]

\* A stage runs: count it and move on (or stop on an exception).
Step(stage, next) ==
    /\ pc = stage
    /\ ran' = [ran EXCEPT ![stage] = @ + 1]
    /\ pc' = next

\* ------------------------------------------------------ EDA cells

\* df = pd.read_csv("train_labels.csv")
ReadCsv ==
    /\ Step("read_csv", "show_images")
    /\ df' = [i \in Ids |-> [id |-> i, label |-> csv[i]]]
    /\ UNCHANGED << inputVars, dirs, image_height, image_width, image_channels,
                    df_subset, train_file_paths, test_file_paths, train_labels,
                    test_labels, genVars, hyperVars, modelVars, outVars >>

WithLabel(frame, l) == {r \in Range(frame) : r.label = l}

RECURSIVE WithPathColumn(_)
\* df["path"] = df["id"].apply(lambda x: os.path.join("train", str(x) + ".tif"))
WithPathColumn(frame) ==
    IF frame = <<>> THEN <<>>
    ELSE << [id |-> Head(frame).id, label |-> Head(frame).label,
             path |-> TrainPath(Head(frame).id)] >>
         \o WithPathColumn(Tail(frame))

\* The path column, and three images of each label shown: .iloc[i] raises
\* IndexError when a label has fewer rows than are shown.
ShowImages ==
    LET withPath == WithPathColumn(df)
        enough == /\ Cardinality(WithLabel(withPath, 0)) >= num_images_to_display
                  /\ Cardinality(WithLabel(withPath, 1)) >= num_images_to_display
    IN  /\ Step("show_images", IF enough THEN "check_dimensions" ELSE "error")
        /\ df' = withPath
        /\ UNCHANGED << inputVars, dirs, image_height, image_width,
                        image_channels, df_subset, train_file_paths,
                        test_file_paths, train_labels, test_labels, genVars,
                        hyperVars, modelVars, outVars >>

\* The dimension check: image_height, image_width and image_channels are
\* left bound to the shape of the last image visited, a random one.
CheckDimensions ==
    /\ Step("check_dimensions", "sample")
    /\ \E shape \in train_shapes :
          /\ image_height' = shape[1]
          /\ image_width' = shape[2]
          /\ image_channels' = shape[3]
    /\ UNCHANGED << inputVars, dirs, df, df_subset, train_file_paths,
                    test_file_paths, train_labels, test_labels, genVars,
                    hyperVars, modelVars, outVars >>

\* ------------------------------------------------ sampling and split

\* astype(str) on a label
Str(l) == IF l = 0 THEN "0" ELSE "1"

RECURSIVE AsTypeStr(_)
\* df["label"] = df["label"].astype(str)
AsTypeStr(frame) ==
    IF frame = <<>> THEN <<>>
    ELSE <<[Head(frame) EXCEPT !.label = Str(@)]>> \o AsTypeStr(Tail(frame))

\* sample(n, replace=True): rows may repeat.
SampleWithReplacement(rows, n) == [1..n -> rows]

\* DataFrame.sample(n) with replace=False, every outcome it may draw: n
\* distinct rows.  (The order of the rows is immaterial: the split
\* permutes them again.)
SampleRows(rows, n) == { SetToSeq(S) : S \in {T \in SUBSET rows : Cardinality(T) = n} }

\* pd.concat([df_0, df_1], ignore_index=True): the index is renumbered.
Concat(a, b) == a \o b

\* df["label"].astype(str); df_0, df_1 sampled; df_subset.  sample raises
\* ValueError when a label has fewer rows than are asked for.
Sample ==
    LET strdf == AsTypeStr(df)
        zeros == WithLabel(strdf, "0")
        ones == WithLabel(strdf, "1")
    IN  /\ pc = "sample"
        /\ df' = strdf
        /\ IF Cardinality(zeros) >= SampleN /\ Cardinality(ones) >= SampleN
           THEN /\ Step("sample", "split")
                /\ \E df_0 \in SampleRows(zeros, SampleN) :
                   \E df_1 \in SampleRows(ones, SampleN) :
                      df_subset' = Concat(df_0, df_1)
           ELSE /\ Step("sample", "error")
                /\ df_subset' = df_subset
        /\ UNCHANGED << inputVars, dirs, image_height, image_width,
                        image_channels, train_file_paths, test_file_paths,
                        train_labels, test_labels, genVars, hyperVars,
                        modelVars, outVars >>

\* ceil(test_size * n_samples) with test_size = 0.2 (the product in
\* floating point rounds as the exact one for every n the model reaches,
\* and for 20000)
NTest(n) == (n + TestSizeDenominator - 1) \div TestSizeDenominator

RECURSIVE SortedSeq(_)
SortedSeq(S) ==
    IF S = {} THEN <<>>
    ELSE LET x == CHOOSE y \in S : \A z \in S : y <= z
         IN  <<x>> \o SortedSeq(S \ {x})

\* A split whose training part keeps every row.
SplitKeepsAll(n) ==
    { [train |-> SortedSeq(1..n), test |-> SortedSeq(T)] :
         T \in {U \in SUBSET (1..n) : Cardinality(U) = NTest(n)} }

\* ShuffleSplit: the index sets train_test_split may draw for n rows.
SplitIndices(n) ==
    { [train |-> SortedSeq((1..n) \ T), test |-> SortedSeq(T)] :
         T \in {U \in SUBSET (1..n) : Cardinality(U) = NTest(n)} }

\* series.iloc[indices]
Take(seq, idx) == [k \in 1..Len(idx) |-> seq[idx[k]]]

\* train_test_split(df_subset["path"], df_subset["label"], test_size=0.2)
TrainTestSplit ==
    LET n == Len(df_subset)
        paths == [i \in 1..n |-> df_subset[i].path]
        labels == [i \in 1..n |-> df_subset[i].label]
    IN  /\ Step("split", "copy_train")
        /\ \E ix \in SplitIndices(n) :
              /\ train_file_paths' = Take(paths, ix.train)
              /\ test_file_paths' = Take(paths, ix.test)
              /\ train_labels' = Take(labels, ix.train)
              /\ test_labels' = Take(labels, ix.test)
        /\ UNCHANGED << inputVars, dirs, df, image_height, image_width,
                        image_channels, df_subset, genVars, hyperVars,
                        modelVars, outVars >>

\* ----------------------------------------------------------- copying

\* os.makedirs(d, exist_ok=True) without the rmtree.
KeepExisting(d) == [d EXCEPT !.exists = TRUE]

\* if os.path.exists(d): shutil.rmtree(d); then the three os.makedirs
Cleared(d) == [exists |-> TRUE, files |-> {}]

\* The subdirectory a label is copied to.
ClassDir(label) == IF label = "0" THEN "0" ELSE "1"

\* The loop over zip(paths, labels): shutil.copy2 into <dir>/<label>/<name>
CopyAll(d, paths, labels) ==
    [d EXCEPT !.files = @ \cup
        { [sub |-> ClassDir(labels[i]), name |-> BaseName(paths[i])] :
             i \in 1..Len(paths) }]

CopyTrain ==
    /\ Step("copy_train", "copy_test")
    /\ dirs' = [dirs EXCEPT !["train_data"] =
                  CopyAll(Cleared(@), train_file_paths, train_labels)]
    /\ UNCHANGED << inputVars, dataVars, genVars, hyperVars, modelVars,
                    outVars >>

CopyTest ==
    /\ Step("copy_test", "generators")
    /\ dirs' = [dirs EXCEPT !["test_data"] =
                  CopyAll(Cleared(@), test_file_paths, test_labels)]
    /\ UNCHANGED << inputVars, dataVars, genVars, hyperVars, modelVars,
                    outVars >>

\* ------------------------------------------------------- generators

\* A factor x as the fraction <<numerator, denominator>>.
One == <<1, 1>>

\* ImageDataGenerator() with Keras's defaults: no transform, no rescaling.
DefaultDatagen ==
    [built |-> TRUE, rescale |-> One, rotation_range |-> 0,
     width_shift_range |-> 0, height_shift_range |-> 0, shear_range |-> 0,
     zoom_range |-> 0, horizontal_flip |-> FALSE, fill_mode |-> "nearest"]

\* train_datagen = ImageDataGenerator(rescale=1.0 / 255, rotation_range=20,
\*     width_shift_range=0.2, ..., horizontal_flip=True, fill_mode="nearest")
TrainDatagen ==
    [DefaultDatagen EXCEPT !.rescale = <<1, RescaleDen>>,
                           !.rotation_range = 20,
                           !.width_shift_range = 200,
                           !.height_shift_range = 200,
                           !.shear_range = 200,
                           !.zoom_range = 200,
                           !.horizontal_flip = TRUE]

\* test_datagen built like train_datagen.
TestDatagenAugmented == TrainDatagen

\* test_datagen = ImageDataGenerator(rescale=1.0 / 255)
TestDatagen == [DefaultDatagen EXCEPT !.rescale = <<1, RescaleDen>>]

\* Whether a generator draws a random transform for the images it yields.
Augments(datagen) ==
    \/ datagen.rotation_range > 0
    \/ datagen.width_shift_range > 0
    \/ datagen.height_shift_range > 0
    \/ datagen.shear_range > 0
    \/ datagen.zoom_range > 0
    \/ datagen.horizontal_flip

\* datagen.flow_from_directory(directory=d, target_size=(image_width,
\*     image_height), batch_size=32, class_mode="binary", color_mode="rgb", ...)
FlowFromDirectory(datagen, d, shuffle) ==
    [built |-> TRUE, datagen |-> datagen, directory |-> d,
     target_size |-> <<image_width, image_height>>,
     batch_size |-> GeneratorBatchSize, class_mode |-> "binary",
     color_mode |-> "rgb", shuffle |-> shuffle, seed |-> 42,
     n |-> Cardinality(dirs[d].files)]

\* An image as io.imread returns it: raw pixel values.
Imread(shape) == [shape |-> shape, scale |-> One, transformed |-> FALSE]

\* Product of two fractions.
Times(a, b) == <<a[1] * b[1], a[2] * b[2]>>

\* An image a generator yields: loaded at the target size with three
\* channels ("rgb"), randomly transformed if the datagen asks for it, then
\* multiplied by rescale.
Yield(gen) ==
    LET loaded == Imread(<<gen.target_size[1], gen.target_size[2], 3>>)
    IN  [loaded EXCEPT !.transformed = Augments(gen.datagen),
                       !.scale = Times(@, gen.datagen.rescale)]

Generators ==
    /\ Step("generators", "build1")
    /\ train_datagen' = TrainDatagen
    /\ test_datagen' = TestDatagen
    /\ train_generator' = FlowFromDirectory(TrainDatagen, "train_data", TRUE)
    /\ test_generator' = FlowFromDirectory(TestDatagen, "test_data", FALSE)
    /\ UNCHANGED << inputVars, dirs, dataVars, hyperVars, modelVars, outVars >>

\* ----------------------------------------------------------- models

\* The one optimizer object reconfigured in place.
AllocateInPlace(h, obj) ==
    IF h = <<>> THEN <<obj>> ELSE [h EXCEPT ![Len(h)] = obj]

\* RMSprop(...) / SGD(...): a new optimizer object; its index is the reference.
Allocate(h, obj) == Append(h, obj)

\* input_shape written out as (96, 96, 3).
CompiledFixed(ref, rate) ==
    [built |-> TRUE, input_shape |-> <<96, 96, 3>>,
     dropout |-> rate, optimizer |-> ref, loss |-> "binary_crossentropy",
     fitted |-> FALSE, trained_with |-> None, history |-> 0]

\* Sequential() with the layers added and compile(optimizer=optimizer, ...):
\* the Dropout layer holds the rate's value, the model the optimizer object.
Compiled(ref, rate) ==
    [built |-> TRUE,
     input_shape |-> <<image_width, image_height, image_channels>>,
     dropout |-> rate, optimizer |-> ref, loss |-> "binary_crossentropy",
     fitted |-> FALSE, trained_with |-> None, history |-> 0]

\* The hyperparameter cell of a model: the shared names are (re)bound.
Build(kind, lr, rate) ==
    /\ learning_rate' = lr
    /\ heap' = Allocate(heap, [kind |-> kind, learning_rate |-> lr])
    /\ optimizer' = Len(heap')
    /\ training_epochs' = 10
    /\ batch_size' = 32
    /\ dropout_rate' = rate

Build1 ==
    /\ Step("build1", "fit1")
    /\ Build("RMSprop", 1, 500)
    /\ model1' = Compiled(optimizer', dropout_rate')
    /\ UNCHANGED << inputVars, dirs, dataVars, genVars, model2, fed, outVars >>

Build2 ==
    /\ Step("build2", "fit2")
    /\ Build("SGD", 10, 250)
    /\ model2' = Compiled(optimizer', dropout_rate')
    /\ UNCHANGED << inputVars, dirs, dataVars, genVars, model1, fed, outVars >>

\* Keras checks an input against the model's input shape.
Accepts(model, image) == image.shape = model.input_shape

\* The configuration a fit runs under.
InEffect(model) ==
    [learning_rate |-> heap[model.optimizer].learning_rate,
     optimizer |-> heap[model.optimizer].kind,
     epochs |-> training_epochs,
     batch_size |-> train_generator.batch_size,
     dropout |-> model.dropout]

\* model.fit(train_generator, epochs=training_epochs,
\*           validation_data=test_generator, ...)
Fitted(model) ==
    [model EXCEPT !.fitted = TRUE, !.trained_with = InEffect(model),
                  !.history = training_epochs]

FitInputs(name) ==
    { [model |-> name, use |-> "train", image |-> Yield(train_generator)],
      [model |-> name, use |-> "validation", image |-> Yield(test_generator)] }

FitOk(model) ==
    /\ Accepts(model, Yield(train_generator))
    /\ Accepts(model, Yield(test_generator))

Fit1 ==
    /\ pc = "fit1"
    /\ Step("fit1", IF FitOk(model1) THEN "build2" ELSE "error")
    /\ fed' = fed \cup FitInputs("model1")
    /\ model1' = IF FitOk(model1) THEN Fitted(model1) ELSE model1
    /\ UNCHANGED << inputVars, dirs, dataVars, genVars, hyperVars, model2,
                    outVars >>

Fit2 ==
    /\ pc = "fit2"
    /\ Step("fit2", IF FitOk(model2) THEN "plot" ELSE "error")
    /\ fed' = fed \cup FitInputs("model2")
    /\ model2' = IF FitOk(model2) THEN Fitted(model2) ELSE model2
    /\ UNCHANGED << inputVars, dirs, dataVars, genVars, hyperVars, model1,
                    outVars >>

\* The two plotting cells read model1.history and model2.history.
Plot ==
    /\ Step("plot", "walk")
    /\ UNCHANGED << inputVars, dirs, dataVars, genVars, hyperVars, modelVars,
                    outVars >>

\* ------------------------------------------------------- submission

\* Every order os.walk may list a set of files in.
Orders(S) ==
    { o \in [1..Cardinality(S) -> S] : \A i, j \in DOMAIN o : i # j => o[i] # o[j] }

\* submission_df = pd.DataFrame(...); test_file_paths rebound to the files
\* os.walk("test") finds.
Walk ==
    /\ Step("walk", "predict")
    /\ submission_df' = <<>>
    /\ file_index' = 1
    /\ \E o \in Orders(test_dir) : test_file_paths' = o
    /\ UNCHANGED << inputVars, dirs, df, image_height, image_width,
                    image_channels, df_subset, train_file_paths, train_labels,
                    test_labels, genVars, hyperVars, modelVars, prediction,
                    submission_csv >>

\* image.reshape(1, 96, 96, 3): one image of 96 x 96 x 3, pixels untouched.
Reshaped(image) ==
    [image EXCEPT !.shape = <<ReshapeSide, ReshapeSide, ReshapeChannels>>]

\* 0 if prediction <= 0.5 else 1
LabelInclusive(p) == IF p <= Threshold THEN 0 ELSE 1

\* 0 if prediction < 0.5 else 1
Label(p) == IF p < Threshold THEN 0 ELSE 1

\* The loop stopping one file early.
LoopDoneEarly(i, paths) == i >= Len(paths)

\* The for loop has visited every file.
LoopDone(i, paths) == i > Len(paths)

\* One turn of the loop over test_file_paths, or its end.  The files under
\* test/ are 96 x 96 x 3 images (reshape raises on any other size).
PredictLoop ==
    /\ pc = "predict"
    /\ IF LoopDone(file_index, test_file_paths)
       THEN /\ Step("predict", "write")
            /\ UNCHANGED << fed, submission_df, file_index, prediction >>
       ELSE LET file == test_file_paths[file_index]
                image == Reshaped(Imread(<<96, 96, 3>>))
            IN  /\ fed' = fed \cup
                      {[model |-> "model1", use |-> "predict", image |-> image]}
                /\ IF Accepts(model1, image)
                   THEN /\ \E p \in Probabilities : prediction' = p
                        /\ submission_df' = Append(submission_df,
                              [id |-> SubmissionId(file),
                               label |-> Label(prediction')])
                        /\ file_index' = file_index + 1
                        /\ UNCHANGED << pc, ran >>
                   ELSE /\ pc' = "error"
                        /\ UNCHANGED << ran, submission_df, file_index,
                                        prediction >>
    /\ UNCHANGED << inputVars, dirs, dataVars, genVars, hyperVars, model1,
                    model2, submission_csv >>

RECURSIVE CsvRows(_)
\* to_csv(index=False): every row as text fields
CsvRows(frame) ==
    IF frame = <<>> THEN <<>>
    ELSE << <<Head(frame).id, ToString(Head(frame).label)>> >>
         \o CsvRows(Tail(frame))

\* submission_df.to_csv("submission.csv", index=False)
WriteCsv ==
    /\ Step("write", "done")
    /\ submission_csv' = [written |-> TRUE, rows |-> CsvRows(submission_df)]
    /\ UNCHANGED << inputVars, dirs, dataVars, genVars, hyperVars, modelVars,
                    submission_df, file_index, prediction >>

Next ==
    \/ ReadCsv
    \/ ShowImages
    \/ CheckDimensions
    \/ Sample
    \/ TrainTestSplit
    \/ CopyTrain
    \/ CopyTest
    \/ Generators
    \/ Build1
    \/ Fit1
    \/ Build2
    \/ Fit2
    \/ Plot
    \/ Walk
    \/ PredictLoop
    \/ WriteCsv

Spec == Init /\ [][Next]_vars

\* ============================================================ claims

StageOrder ==
    << "read_csv", "show_images", "check_dimensions", "sample", "split",
       "copy_train", "copy_test", "generators", "build1", "fit1", "build2",
       "fit2", "plot", "walk", "predict", "write" >>

Did(stage) == ran[stage] >= 1

CountLabel(l) == Cardinality({i \in Ids : csv[i] = l})

\* The sampling step has completed.
Sampled == pc = "split" \/ Did("split")

\* C1: after the sampling step df_subset is balanced: SampleN rows of each
\* label (the notebook's 10000), every row a row of the CSV with the
\* CSV's label, no CSV row twice; and the step completes whenever the CSV
\* has that many rows of each label.
C1_BalancedSubset ==
    /\ Sampled =>
          /\ Len(df_subset) = 2 * SampleN
          /\ Cardinality({i \in DOMAIN df_subset : df_subset[i].label = "0"}) = SampleN
          /\ Cardinality({i \in DOMAIN df_subset : df_subset[i].label = "1"}) = SampleN
          /\ \A i \in DOMAIN df_subset :
                /\ df_subset[i].id \in Ids
                /\ df_subset[i].label = (IF csv[df_subset[i].id] = 0 THEN "0" ELSE "1")
          /\ \A i, j \in DOMAIN df_subset :
                i # j => df_subset[i].id # df_subset[j].id
          /\ CountLabel(0) >= SampleN /\ CountLabel(1) >= SampleN
    /\ (Did("sample") /\ CountLabel(0) >= SampleN /\ CountLabel(1) >= SampleN)
          => Sampled

\* The sampling step left out a row of the CSV it could have drawn.
C1_Witness ==
    /\ pc = "split"
    /\ \E i \in Ids : csv[i] = 0 /\ \A k \in DOMAIN df_subset : df_subset[k].id # i

\* The split's outputs are still bound (test_file_paths is rebound later).
SplitBound == (pc = "copy_train" \/ Did("copy_train")) /\ ~Did("walk")

PathLabels(paths, labels) == {<<paths[k], labels[k]>> : k \in DOMAIN paths}

\* C2: the split's two parts are disjoint and together hold every row of
\* the subset exactly once; the test part is 20% of the rows (rounded up)
\* and the training part the rest, which for the notebook's 20000 rows is
\* 4000 and 16000; every path keeps its label.
C2_SplitPartition ==
    SplitBound =>
       LET n == Len(df_subset)
           tr == Range(train_file_paths)
           te == Range(test_file_paths)
       IN  /\ tr \cap te = {}
           /\ tr \cup te = {df_subset[i].path : i \in 1..n}
           /\ Cardinality(tr) = Len(train_file_paths)
           /\ Cardinality(te) = Len(test_file_paths)
           /\ Len(train_file_paths) + Len(test_file_paths) = n
           /\ 5 * Len(test_file_paths) >= n
           /\ 5 * (Len(test_file_paths) - 1) < n
           /\ NTest(2 * SubsetPerLabel) = 4000
           /\ 2 * SubsetPerLabel - NTest(2 * SubsetPerLabel) = 16000
           /\ Len(train_labels) = Len(train_file_paths)
           /\ Len(test_labels) = Len(test_file_paths)
           /\ PathLabels(train_file_paths, train_labels)
                 \cup PathLabels(test_file_paths, test_labels)
              = {<<df_subset[i].path, df_subset[i].label>> : i \in 1..n}

\* A split whose test part holds rows of both labels.
C2_Witness ==
    /\ pc = "copy_train"
    /\ Len(test_file_paths) = 2
    /\ test_labels[1] # test_labels[2]

\* The rows of the two parts of the split, from df_subset.
TrainRows == {r \in Range(df_subset) : r.path \in Range(train_file_paths)}
TestRows == {r \in Range(df_subset) : r.path \notin Range(train_file_paths)}

FileNameOf(r) == <<ToString(r.id), ".", "tif">>

DirHolds(d, rows) ==
    /\ dirs[d].exists
    /\ \A r \in rows :
          /\ Cardinality({f \in dirs[d].files : f.name = FileNameOf(r)}) = 1
          /\ [sub |-> r.label, name |-> FileNameOf(r)] \in dirs[d].files
    /\ \A f \in dirs[d].files : \E r \in rows : f.name = FileNameOf(r)
    /\ Cardinality(dirs[d].files) = Cardinality(rows)

\* C3: after the copy step train_data and test_data each hold exactly the
\* rows of their part of the split, one file a row, in the subdirectory
\* named by the row's label, and nothing else.
C3_CopiedByLabel ==
    /\ Did("copy_train") => DirHolds("train_data", TrainRows)
    /\ Did("copy_test") => DirHolds("test_data", TestRows)

\* Both directories filled, train_data with files of both labels.
C3_Witness ==
    /\ pc = "generators"
    /\ \E f, g \in dirs["train_data"].files : f.sub = "0" /\ g.sub = "1"
    /\ dirs["test_data"].files # {}

\* The tokens of a path after its last "/".
NameOf(file) ==
    LET slashes == {i \in DOMAIN file : file[i] = "/"}
        last == IF slashes = {} THEN 0
                ELSE CHOOSE i \in slashes : \A j \in slashes : j <= i
    IN  SubSeq(file, last + 1, Len(file))

DotsOf(name) == {i \in DOMAIN name : name[i] = "."}

\* A file name without its extension (os.path.splitext).
Stem(name) ==
    LET dots == DotsOf(name) \ {1}
    IN  IF dots = {} THEN name
        ELSE SubSeq(name, 1, (CHOOSE i \in dots : \A j \in dots : j <= i) - 1)

\* The part of a file name before its first ".".
BeforeFirstDot(name) ==
    LET dots == DotsOf(name)
    IN  IF dots = {} THEN name
        ELSE SubSeq(name, 1, (CHOOSE i \in dots : \A j \in dots : i <= j) - 1)

CsvRowsOk ==
    /\ Len(submission_csv.rows) = Cardinality(test_dir)
    /\ Len(test_file_paths) = Cardinality(test_dir)
    /\ Range(test_file_paths) = test_dir
    /\ \A k \in DOMAIN submission_csv.rows :
          submission_csv.rows[k][2] \in {"0", "1"}

\* C4 as stated: one row for every file under test/ and no other; each
\* row's id is the file's name without its extension; no two rows share an
\* id; each label is 0 or 1.
C4_Original ==
    submission_csv.written =>
       /\ CsvRowsOk
       /\ \A k \in DOMAIN submission_csv.rows :
             submission_csv.rows[k][1] = Stem(NameOf(test_file_paths[k]))
       /\ \A j, k \in DOMAIN submission_csv.rows :
             j # k => submission_csv.rows[j][1] # submission_csv.rows[k][1]

\* C4 as amended: one row for every file under test/ and no other, each
\* label 0 or 1; a row's id is the part of the file's name before its first
\* ".", which is the name without its extension when the name has one ".";
\* no two rows share an id when no two files share that part.
C4_SubmissionRows ==
    submission_csv.written =>
       /\ CsvRowsOk
       /\ \A k \in DOMAIN submission_csv.rows :
             LET name == NameOf(test_file_paths[k])
             IN  /\ submission_csv.rows[k][1] = BeforeFirstDot(name)
                 /\ Cardinality(DotsOf(name)) = 1
                       => submission_csv.rows[k][1] = Stem(name)
       /\ (\A f, g \in test_dir :
              f # g => BeforeFirstDot(NameOf(f)) # BeforeFirstDot(NameOf(g)))
          => \A j, k \in DOMAIN submission_csv.rows :
                j # k => submission_csv.rows[j][1] # submission_csv.rows[k][1]

\* submission.csv written with two rows of one id.
C4_Witness ==
    /\ submission_csv.written
    /\ Len(submission_csv.rows) = 2
    /\ submission_csv.rows[1][1] = submission_csv.rows[2][1]

\* C5: the stages run in the notebook's order, each at most once and only
\* after the one before it has completed, and each exactly once in a run
\* that completes; model1.predict is called only after model1.fit has
\* finished, and submission.csv is written only after every file under
\* test/ has its prediction row.
C5_LinearPipeline ==
    /\ \A s \in Stages : ran[s] <= 1
    /\ \A k \in 2..Len(StageOrder) :
          (Did(StageOrder[k]) \/ pc = StageOrder[k]) => ran[StageOrder[k - 1]] = 1
    /\ pc \in Stages => ran[pc] = 0
    /\ pc = "done" => \A s \in Stages : ran[s] = 1
    /\ \A f \in fed :
          /\ f.model = "model1" => ran["fit1"] = 1
          /\ f.model = "model2" => ran["fit2"] = 1
          /\ f.use = "predict" => (f.model = "model1" /\ model1.fitted /\ Did("walk"))
    /\ submission_df # <<>> => model1.fitted
    /\ (Did("predict") \/ submission_csv.written) =>
          /\ Len(submission_df) = Cardinality(test_dir)
          /\ {SubmissionId(f) : f \in test_dir}
                = {submission_df[k].id : k \in DOMAIN submission_df}
    /\ submission_csv.written =>
          (pc = "done" /\ Len(submission_csv.rows) = Len(submission_df))

\* A completed run that predicted for two files.
C5_Witness ==
    /\ pc = "done"
    /\ Len(submission_csv.rows) = 2
    /\ \E f \in fed : f.use = "predict"

\* C6 as stated: train_generator and test_generator both apply random
\* augmentation transforms to the images they yield.
C6_Original ==
    Did("generators") =>
       /\ Yield(train_generator).transformed
       /\ Yield(test_generator).transformed

\* C6 as amended: only train_generator applies the random transforms
\* (rotation, width and height shift, shear, zoom, horizontal flip);
\* test_generator, which feeds the validation, only rescales by 1/255.
C6_TrainAugmentsOnly ==
    /\ Did("generators") =>
          /\ train_generator.datagen = train_datagen
          /\ test_generator.datagen = test_datagen
          /\ train_datagen.rotation_range > 0
          /\ train_datagen.width_shift_range > 0
          /\ train_datagen.height_shift_range > 0
          /\ train_datagen.shear_range > 0
          /\ train_datagen.zoom_range > 0
          /\ train_datagen.horizontal_flip
          /\ Yield(train_generator).transformed
          /\ ~Augments(test_datagen)
          /\ ~Yield(test_generator).transformed
          /\ test_datagen.rescale = <<1, 255>>
    /\ \A f \in fed :
          /\ f.use = "train" => f.image.transformed
          /\ f.use = "validation" => ~f.image.transformed

\* A model has been validated on an image that was not transformed.
C6_Witness ==
    \E f \in fed : f.use = "validation" /\ ~f.image.transformed

\* A prediction has been made and its row appended.
Predicted == Did("walk") /\ submission_df # <<>>

\* C7: the label of a test image is model1's output thresholded at 0.5: 0
\* below 0.5, 1 otherwise, 0.5 itself included; and that is the label
\* submission.csv carries.
C7_Threshold ==
    /\ Predicted =>
          /\ prediction < 500 => Last(submission_df).label = 0
          /\ prediction >= 500 => Last(submission_df).label = 1
    /\ submission_csv.written =>
          \A k \in DOMAIN submission_df :
             submission_csv.rows[k][2]
                = (IF submission_df[k].label = 0 THEN "0" ELSE "1")

\* A prediction of exactly 0.5 labelled 1.
C7_Witness ==
    Predicted /\ prediction = 500 /\ Last(submission_df).label = 1

\* C8: every image handed to a model, for training, validation or the
\* submission prediction, has had its pixel values multiplied by 1/255.
C8_AllRescaled ==
    \A f \in fed : f.image.scale = <<1, 255>>

Documented1 ==
    [learning_rate |-> 1, optimizer |-> "RMSprop", epochs |-> 10,
     batch_size |-> 32, dropout |-> 500]
Documented2 ==
    [learning_rate |-> 10, optimizer |-> "SGD", epochs |-> 10,
     batch_size |-> 32, dropout |-> 250]

\* C9: model1 is trained with learning rate 0.001, RMSprop, 10 epochs,
\* batch size 32 and dropout 0.5, model2 with 0.01, SGD, 10, 32 and 0.25;
\* rebinding learning_rate, optimizer, dropout_rate and batch_size for
\* model2 leaves model1's optimizer and dropout as they were.
C9_Hyperparameters ==
    /\ (model1.built /\ model1.fitted) => model1.trained_with = Documented1
    /\ (model2.built /\ model2.fitted) => model2.trained_with = Documented2
    /\ model1.built =>
          /\ heap[model1.optimizer] = [kind |-> "RMSprop", learning_rate |-> 1]
          /\ model1.dropout = 500
    /\ model2.built =>
          /\ heap[model2.optimizer] = [kind |-> "SGD", learning_rate |-> 10]
          /\ model2.dropout = 250
          /\ model2.optimizer # model1.optimizer

\* Both models trained, the shared names rebound for model2.
C9_Witness ==
    /\ model2.built /\ model2.fitted
    /\ learning_rate = 10 /\ dropout_rate = 250
    /\ heap[optimizer].kind = "SGD"

Measured == <<image_width, image_height, image_channels>>

====
